---- MODULE Spec2Model ----
(***************************************************************************)
(* Model of scripts/generate-abbreviations.py: the one-shot pipeline that  *)
(* dumps the Agda input method's translation table through Emacs, strips   *)
(* the key decoration, sorts, and writes src/unicode/abbreviations.json.   *)
(*                                                                         *)
(* A string is a sequence of code points (naturals).  A Python dict is the *)
(* sequence of its items [k |-> key, v |-> value] in insertion order, with *)
(* pairwise distinct keys.  A file's content is a sequence of tokens       *)
(* [t |-> kind, s |-> text].                                               *)
(***************************************************************************)
EXTENDS Naturals, Sequences, FiniteSets

(* ------------------------------ bounds --------------------------------- *)

\* largest number of entries of a raw mapping / engine table that is drawn
MaxEntries == 2

\* largest number of leading marker characters put in front of a drawn key
MaxMarkers == 2

(* ------------------------- program constants --------------------------- *)

\* the decoration marker, a backslash
Marker == 92

\* first and last printable ASCII code point (#x20, #x7e)
AsciiLo == 32

AsciiHi == 126

(* ------------------------------ strings -------------------------------- *)

\* code points for which Python's str.isspace() holds; str.strip() removes them
WhitespaceChars ==
    {9, 10, 11, 12, 13, 28, 29, 30, 31, 32, 133, 160, 5760}
        \cup (8192..8202) \cup {8232, 8233, 8239, 8287, 12288}

\* str.lstrip() over a text whose whitespace elements are ws
RECURSIVE lstrip(_, _)
lstrip(s, ws) ==
    IF s # <<>> /\ Head(s) \in ws THEN lstrip(Tail(s), ws) ELSE s

\* str.rstrip()
RECURSIVE rstrip(_, _)
rstrip(s, ws) ==
    IF s # <<>> /\ s[Len(s)] \in ws
    THEN rstrip(SubSeq(s, 1, Len(s) - 1), ws)
    ELSE s

\* str.strip() of a string of code points
strip(s) == rstrip(lstrip(s, WhitespaceChars), WhitespaceChars)

\* Python's < on str: lexicographic by code point, a proper prefix is smaller
RECURSIVE StrLess(_, _)
StrLess(a, b) ==
    IF b = <<>> THEN FALSE
    ELSE IF a = <<>> THEN TRUE
    ELSE IF Head(a) # Head(b) THEN Head(a) < Head(b)
    ELSE StrLess(Tail(a), Tail(b))

(* ------------------------------- dicts --------------------------------- *)

Keys(d) == {d[i].k : i \in 1..Len(d)}

HasKey(d, key) == \E i \in 1..Len(d) : d[i].k = key

\* d[key], for a key the dict holds
Lookup(d, key) == d[CHOOSE i \in 1..Len(d) : d[i].k = key].v

\* d[key] = val with first-assignment-wins (a defect: later values are lost)
DictSet_keepfirst(d, key, val) ==
    IF HasKey(d, key) THEN d ELSE Append(d, [k |-> key, v |-> val])

\* d[key] = val: an existing key keeps its position and takes the new value
DictSet(d, key, val) ==
    IF HasKey(d, key)
    THEN [i \in 1..Len(d) |-> IF d[i].k = key THEN [k |-> key, v |-> val] ELSE d[i]]
    ELSE Append(d, [k |-> key, v |-> val])

RECURSIVE InsertSorted(_, _)
InsertSorted(item, sortedItems) ==
    IF sortedItems = <<>> THEN <<item>>
    ELSE IF StrLess(item.k, Head(sortedItems).k) THEN <<item>> \o sortedItems
    ELSE <<Head(sortedItems)>> \o InsertSorted(item, Tail(sortedItems))

\* sorted(d.items()): ascending by key (the keys of a dict are distinct)
RECURSIVE SortItems(_)
SortItems(d) ==
    IF d = <<>> THEN <<>> ELSE InsertSorted(Head(d), SortItems(Tail(d)))

(* --------------------------- Table Normalizer -------------------------- *)

\* key[1:] without the startswith test (a defect)
StripMarker_always(key) == IF key = <<>> THEN key ELSE Tail(key)

\* key[1:] if key.startswith("\\") else key
StripMarker(key) ==
    IF key # <<>> /\ Head(key) = Marker THEN Tail(key) ELSE key

\* the emptiness test alone (a defect: blank keys pass)
KeepKey_nonempty(stripped) == stripped # <<>>

\* stripped and stripped.strip()
KeepKey(stripped) == stripped # <<>> /\ strip(stripped) # <<>>

\* the loop over raw.items(), from the dict `cleaned` built so far
RECURSIVE CleanLoop(_, _)
CleanLoop(items, cleaned) ==
    IF items = <<>> THEN cleaned
    ELSE LET key == Head(items).k
             translations == Head(items).v
             stripped == StripMarker(key)
         IN  CleanLoop(Tail(items),
                       IF KeepKey(stripped)
                       THEN DictSet(cleaned, stripped, translations)
                       ELSE cleaned)

\* postprocess without the final sort (a defect)
postprocess_unsorted(rawItems) == CleanLoop(rawItems, <<>>)

postprocess(rawItems) == SortItems(CleanLoop(rawItems, <<>>))

(* ------------------------------ Serializer ----------------------------- *)

Tok(kind, text) == [t |-> kind, s |-> text]

RECURSIVE StrToks(_)
StrToks(strings) ==
    IF strings = <<>> THEN <<>>
    ELSE <<Tok("str", Head(strings))>> \o StrToks(Tail(strings))

RECURSIVE ItemToks(_)
ItemToks(items) ==
    IF items = <<>> THEN <<>>
    ELSE <<Tok("key", Head(items).k), Tok("[", <<>>)>>
            \o StrToks(Head(items).v) \o <<Tok("]", <<>>)>>
            \o ItemToks(Tail(items))

\* json.dump(cleaned, f, ensure_ascii=False, indent=2, sort_keys=True)
json_dump(cleaned) ==
    <<Tok("{", <<>>)>> \o ItemToks(SortItems(cleaned)) \o <<Tok("}", <<>>)>>

Newline == Tok("nl", <<>>)

\* the whole artifact of a run whose normalized table is `cleaned`
CompleteArtifact(cleaned) == json_dump(cleaned) \o <<Newline>>

\* the keys of an artifact, in file order
RECURSIVE ArtifactKeys(_)
ArtifactKeys(content) ==
    IF content = <<>> THEN <<>>
    ELSE (IF Head(content).t = "key" THEN <<Head(content).s>> ELSE <<>>)
            \o ArtifactKeys(Tail(content))

(* ------------------- the dump routine (DUMP_ELISP) ---------------------- *)

\* An engine table is the list of (KEY . VALUE) pairs that
\* agda-input-get-translations returns: [k |-> key, val |-> value], the keys
\* pairwise distinct (the pairs are the paths of the Quail map).  A value and
\* a vector element are tagged: [tag |-> "char", c |-> code point],
\* [tag |-> "str", s |-> text], [tag |-> "sym", s |-> symbol name],
\* [tag |-> "other", s |-> what (format "%s" x) prints]; a value may also be
\* [tag |-> "vec", items |-> elements].

CharItem(c) == [tag |-> "char", c |-> c, s |-> <<>>]

StrItem(s) == [tag |-> "str", c |-> 0, s |-> s]

SymItem(name) == [tag |-> "sym", c |-> 0, s |-> name]

OtherItem(printed) == [tag |-> "other", c |-> 0, s |-> printed]

Scalar(item) == [tag |-> item.tag, c |-> item.c, s |-> item.s, items |-> <<>>]

Vec(items) == [tag |-> "vec", c |-> 0, s |-> <<>>, items |-> items]

\* the inner cond: stringp, characterp, symbolp, otherwise format
ItemString(x) ==
    CASE x.tag = "str" -> x.s
      [] x.tag = "char" -> <<x.c>>
      [] x.tag = "sym" -> x.s
      [] OTHER -> x.s

\* the outer cond: vectorp, stringp, characterp, otherwise format
ValueStrings(val) ==
    CASE val.tag = "vec" -> [j \in 1..Len(val.items) |-> ItemString(val.items[j])]
      [] val.tag = "str" -> <<val.s>>
      [] val.tag = "char" -> <<<<val.c>>>>
      [] OTHER -> <<val.s>>

\* the removal test with an exclusive lower end (a defect: space is kept)
IsSinglePrintableAscii_open(s) ==
    Len(s) = 1 /\ s[1] > AsciiLo /\ s[1] <= AsciiHi

\* (and (= (length s) 1) (>= c #x20) (<= c #x7e))
IsSinglePrintableAscii(s) ==
    Len(s) = 1 /\ s[1] >= AsciiLo /\ s[1] <= AsciiHi

\* cl-remove-if
RECURSIVE RemoveAscii(_)
RemoveAscii(strings) ==
    IF strings = <<>> THEN <<>>
    ELSE (IF IsSinglePrintableAscii(Head(strings)) THEN <<>> ELSE <<Head(strings)>>)
            \o RemoveAscii(Tail(strings))

\* the dolist over the translations, from the hash table built so far
RECURSIVE DumpLoop(_, _)
DumpLoop(translations, table) ==
    IF translations = <<>> THEN table
    ELSE LET key == Head(translations).k
             strings == ValueStrings(Head(translations).val)
             nonAscii == RemoveAscii(strings)
         IN  DumpLoop(Tail(translations),
                      IF Len(key) > 0 /\ strings # <<>> /\ nonAscii # <<>>
                      THEN DictSet(table, key, nonAscii)
                      ELSE table)

\* the mapping that dump-agda-translations encodes and prints
dump_agda_translations(translations) == DumpLoop(translations, <<>>)

(* ------------------------------ input sets ----------------------------- *)

RECURSIVE Markers(_)
Markers(n) == IF n = 0 THEN <<>> ELSE <<Marker>> \o Markers(n - 1)

\* key bodies: empty, two spaces, tab + NBSP, "a", "ab"
KeyBodies == {<<>>, <<32, 32>>, <<9, 160>>, <<97>>, <<97, 98>>}

RawKeys == {Markers(n) \o body : n \in 0..MaxMarkers, body \in KeyBodies}

\* translation lists: [], [NBSP], ["", "→"]
RawVals == {<<>>, << <<160>> >>, << <<>>, <<8594>> >>}

RawEntries == {[k |-> key, v |-> val] : key \in RawKeys, val \in RawVals}

DistinctKeys(d) == \A i, j \in 1..Len(d) : i # j => d[i].k # d[j].k

\* every dict of at most MaxEntries items over the entries
DictsOver(entries) ==
    UNION {{d \in [1..n -> entries] : DistinctKeys(d)} : n \in 0..MaxEntries}

RawMappings == DictsOver(RawEntries)

EngineKeys == {Markers(n) \o body : n \in 0..MaxMarkers, body \in {<<>>, <<97>>}}

\* "~" and " " (dropped), DEL and 0x1f (kept), "" (kept), [] (dropped),
\* ["a" x] (dropped), ["a" "→" "ab"] (kept in part), 1.5 (kept)
EngineVals ==
    { Scalar(CharItem(126)), Scalar(CharItem(32)), Scalar(CharItem(127)),
      Scalar(CharItem(31)), Scalar(StrItem(<<>>)), Vec(<<>>),
      Vec(<<CharItem(97), SymItem(<<120>>)>>),
      Vec(<<CharItem(97), CharItem(8594), StrItem(<<97, 98>>)>>),
      Scalar(OtherItem(<<49, 46, 53>>)) }

EngineEntries == {[k |-> key, val |-> v] : key \in EngineKeys, v \in EngineVals}

EngineTables == DictsOver(EngineEntries)

(* -------------------------------- state -------------------------------- *)

VARIABLES
    pc,          \* position of the run
    stage,       \* the last step of the run that was taken ("none": none yet)
    err,         \* the fatal error the program signalled ("none": none)
    exitCode,    \* process exit status, meaningful once pc = "exited"
    dumpFile,    \* TRUE while the transient dump-routine file exists
    rc,          \* the engine's exit status
    stdout,      \* the engine's captured standard output
    engineTable, \* the translations inside the engine
    raw,         \* the raw mapping
    rawIsDict,   \* FALSE when the parsed output is JSON but no object
    cleaned,     \* the normalized table
    artifact,    \* the artifact file: [exists, content]
    artifact0,   \* the artifact file as it was before the run
    dirExists    \* TRUE when the output directory exists

vars == <<pc, stage, err, exitCode, dumpFile, rc, stdout, engineTable, raw,
          rawIsDict, cleaned, artifact, artifact0, dirExists>>

Absent == [exists |-> FALSE, content |-> <<>>]

File(content) == [exists |-> TRUE, content |-> content]

runVars == <<stage, err, exitCode, dumpFile, rc, stdout, rawIsDict, artifact0,
             dirExists>>

IdleRun ==
    /\ stage = "none" /\ err = "none" /\ exitCode = 0 /\ dumpFile = FALSE
    /\ rc = 0 /\ stdout = <<>> /\ rawIsDict = TRUE
    /\ artifact = Absent /\ artifact0 = Absent /\ dirExists = TRUE

(* ------------- the Table Normalizer and Serializer alone --------------- *)

InitNorm ==
    /\ pc = "raw"
    /\ raw \in RawMappings
    /\ engineTable = <<>>
    /\ cleaned = <<>>
    /\ IdleRun

\* cleaned = postprocess(raw)
Normalize ==
    /\ pc = "raw"
    /\ cleaned' = postprocess(raw)
    /\ pc' = "normalized"
    /\ UNCHANGED <<raw, engineTable, artifact, runVars>>

\* json.dump(cleaned, f, ...); f.write("\n")
Serialize ==
    /\ pc = "normalized"
    /\ artifact' = File(CompleteArtifact(cleaned))
    /\ pc' = "serialized"
    /\ UNCHANGED <<raw, engineTable, cleaned, runVars>>

NextNorm == Normalize \/ Serialize

SpecNorm == InitNorm /\ [][NextNorm]_vars

(* --------------- the dump routine followed by the Normalizer ----------- *)

InitDump ==
    /\ pc = "table"
    /\ engineTable \in EngineTables
    /\ raw = <<>>
    /\ cleaned = <<>>
    /\ IdleRun

\* (dump-agda-translations), its output read back
Dump ==
    /\ pc = "table"
    /\ raw' = dump_agda_translations(engineTable)
    /\ pc' = "raw"
    /\ UNCHANGED <<engineTable, cleaned, artifact, runVars>>

NextDump == Dump \/ Normalize

SpecDump == InitDump /\ [][NextDump]_vars

(* ------------------------- the engine's output ------------------------- *)

\* The captured standard output is a sequence of pieces [t |-> kind,
\* tbl |-> mapping]: "ws" is white space, "junk" is text that is no JSON,
\* "json" is the encoding of the object tbl, "jsonarr" is valid JSON that is
\* no object.

OutTok(kind, tbl) == [t |-> kind, tbl |-> tbl]

Ws == OutTok("ws", <<>>)

Junk == OutTok("junk", <<>>)

\* what the dump routine prints: (princ (json-encode table)) (princ "\n")
DumpOutput(translations) ==
    <<OutTok("json", dump_agda_translations(translations)), Ws>>

\* result.stdout.strip()
strip_out(out) == rstrip(lstrip(out, {Ws}), {Ws})

\* json.loads succeeds on exactly one JSON value
JsonParses(text) == Len(text) = 1 /\ text[1].t \in {"json", "jsonarr"}

Outcome(e, r, d) == [err |-> e, raw |-> r, isDict |-> d]

\* a non-zero exit status made fatal (a defect)
OutputOutcome_status(status, out) ==
    LET text == strip_out(out)
    IN  IF status # 0 \/ text = <<>>
        THEN Outcome("EngineProducedNoOutput", <<>>, TRUE)
        ELSE IF ~JsonParses(text) THEN Outcome("MalformedOutput", <<>>, TRUE)
        ELSE Outcome("none", text[1].tbl, text[1].t = "json")

\* output that does not parse read as an empty table (a defect)
OutputOutcome_lenient(status, out) ==
    LET text == strip_out(out)
    IN  IF text = <<>> THEN Outcome("EngineProducedNoOutput", <<>>, TRUE)
        ELSE IF ~JsonParses(text) THEN Outcome("none", <<>>, TRUE)
        ELSE Outcome("none", text[1].tbl, text[1].t = "json")

\* dump_raw_translations after the engine has ended: the exit status is
\* looked at and ignored
OutputOutcome(status, out) ==
    LET text == strip_out(out)
    IN  IF text = <<>> THEN Outcome("EngineProducedNoOutput", <<>>, TRUE)
        ELSE IF ~JsonParses(text) THEN Outcome("MalformedOutput", <<>>, TRUE)
        ELSE Outcome("none", text[1].tbl, text[1].t = "json")

(* ------------------------------ the run -------------------------------- *)

\* the table of an earlier run; its key "z" is no key of this run
OldTable == <<[k |-> <<122>>, v |-> << <<8594>> >>]>>

PriorArtifacts == {Absent, File(<<>>), File(CompleteArtifact(OldTable))}

\* the engine tables of a whole run: at most one translation pair
RunTables == {tbl \in EngineTables : Len(tbl) <= 1}

ExitStatuses == {0, 1}

Init ==
    /\ pc = "start"
    /\ stage = "none"
    /\ err = "none"
    /\ exitCode = 0
    /\ dumpFile = FALSE
    /\ rc = 0
    /\ stdout = <<>>
    /\ engineTable \in RunTables
    /\ raw = <<>>
    /\ rawIsDict = TRUE
    /\ cleaned = <<>>
    /\ artifact0 \in PriorArtifacts
    /\ artifact = artifact0
    /\ dirExists \in BOOLEAN
    /\ artifact0.exists => dirExists

\* sys.exit(1) after a diagnostic, or an uncaught exception
Abort(kind) ==
    /\ err' = kind
    /\ exitCode' = 1
    /\ pc' = "exited"

Continue(next) ==
    /\ pc' = next
    /\ UNCHANGED <<err, exitCode>>

\* find_executable("emacs")
FindEmacs ==
    /\ pc = "start"
    /\ stage' = "FindEmacs"
    /\ \E found \in BOOLEAN :
          IF found THEN Continue("find_agda_mode") ELSE Abort("ToolNotFound")
    /\ UNCHANGED <<dumpFile, rc, stdout, engineTable, raw, rawIsDict, cleaned,
                   artifact, artifact0, dirExists>>

\* find_executable("agda-mode")
FindAgdaMode ==
    /\ pc = "find_agda_mode"
    /\ stage' = "FindAgdaMode"
    /\ \E found \in BOOLEAN :
          IF found THEN Continue("locate") ELSE Abort("ToolNotFound")
    /\ UNCHANGED <<dumpFile, rc, stdout, engineTable, raw, rawIsDict, cleaned,
                   artifact, artifact0, dirExists>>

\* subprocess.run([agda_mode, "locate"], check=True)
Locate ==
    /\ pc = "locate"
    /\ stage' = "Locate"
    /\ \E result \in {"ok", "CalledProcessError", "OSError"} :
          CASE result = "ok" -> Continue("check_definition")
            [] result = "CalledProcessError" -> Abort("LocateFailed")
            [] OTHER -> Abort("Uncaught")
    /\ UNCHANGED <<dumpFile, rc, stdout, engineTable, raw, rawIsDict, cleaned,
                   artifact, artifact0, dirExists>>

\* os.path.isfile(agda_input_el)
CheckDefinition ==
    /\ pc = "check_definition"
    /\ stage' = "CheckDefinition"
    /\ \E isfile \in BOOLEAN :
          IF isfile THEN Continue("create_temp") ELSE Abort("DefinitionNotFound")
    /\ UNCHANGED <<dumpFile, rc, stdout, engineTable, raw, rawIsDict, cleaned,
                   artifact, artifact0, dirExists>>

\* tempfile.NamedTemporaryFile(mode="w", suffix=".el", delete=False)
CreateTemp ==
    /\ pc = "create_temp"
    /\ stage' = "CreateTemp"
    /\ \E ok \in BOOLEAN :
          IF ok
          THEN dumpFile' = TRUE /\ Continue("write_temp")
          ELSE dumpFile' = FALSE /\ Abort("Uncaught")
    /\ UNCHANGED <<rc, stdout, engineTable, raw, rawIsDict, cleaned, artifact,
                   artifact0, dirExists>>

\* f.write(DUMP_ELISP) and the close at the end of the with block; the
\* try/finally has not been entered yet
WriteTemp ==
    /\ pc = "write_temp"
    /\ stage' = "WriteTemp"
    /\ \E ok \in BOOLEAN :
          IF ok THEN Continue("launch") ELSE Abort("Uncaught")
    /\ UNCHANGED <<dumpFile, rc, stdout, engineTable, raw, rawIsDict, cleaned,
                   artifact, artifact0, dirExists>>

\* subprocess.run starts emacs; on OSError the finally clause unlinks
LaunchEngine ==
    /\ pc = "launch"
    /\ stage' = "LaunchEngine"
    /\ \E ok \in BOOLEAN :
          IF ok
          THEN dumpFile' = dumpFile /\ Continue("engine")
          ELSE dumpFile' = FALSE /\ Abort("Uncaught")
    /\ UNCHANGED <<rc, stdout, engineTable, raw, rawIsDict, cleaned, artifact,
                   artifact0, dirExists>>

\* emacs ends or the 30 seconds pass; the finally clause unlinks
EngineEnds ==
    /\ pc = "engine"
    /\ stage' = "EngineEnds"
    /\ dumpFile' = FALSE
    /\ \/ /\ Abort("EngineTimeout")
          /\ UNCHANGED <<rc, stdout>>
       \/ /\ \E status \in ExitStatuses,
                pre \in {<<>>, <<Ws>>, <<Junk, Ws>>},
                body \in {<<>>, DumpOutput(engineTable), <<OutTok("jsonarr", <<>>), Ws>>} :
                /\ rc' = status
                /\ stdout' = pre \o body
          /\ Continue("check_output")
    /\ UNCHANGED <<engineTable, raw, rawIsDict, cleaned, artifact, artifact0,
                   dirExists>>

\* the rest of dump_raw_translations
CheckOutput ==
    /\ pc = "check_output"
    /\ stage' = "CheckOutput"
    /\ LET o == OutputOutcome(rc, stdout)
       IN  IF o.err # "none"
           THEN Abort(o.err) /\ UNCHANGED <<raw, rawIsDict>>
           ELSE raw' = o.raw /\ rawIsDict' = o.isDict /\ Continue("postprocess")
    /\ UNCHANGED <<dumpFile, rc, stdout, engineTable, cleaned, artifact,
                   artifact0, dirExists>>

\* cleaned = postprocess(raw), and the two counts; raw.items() of a value
\* that is no dict raises
Postprocess ==
    /\ pc = "postprocess"
    /\ stage' = "Postprocess"
    /\ IF rawIsDict
       THEN cleaned' = postprocess(raw) /\ Continue("makedirs")
       ELSE cleaned' = cleaned /\ Abort("Uncaught")
    /\ UNCHANGED <<dumpFile, rc, stdout, engineTable, raw, rawIsDict, artifact,
                   artifact0, dirExists>>

\* os.makedirs(output_dir, exist_ok=True)
MakeDirs ==
    /\ pc = "makedirs"
    /\ stage' = "MakeDirs"
    /\ \E ok \in BOOLEAN :
          IF ok \/ dirExists
          THEN dirExists' = TRUE /\ Continue("open")
          ELSE dirExists' = FALSE /\ Abort("Uncaught")
    /\ UNCHANGED <<dumpFile, rc, stdout, engineTable, raw, rawIsDict, cleaned,
                   artifact, artifact0>>

\* open(output_path, "w"): creates the file or truncates it
OpenOutput ==
    /\ pc = "open"
    /\ stage' = "OpenOutput"
    /\ \E ok \in BOOLEAN :
          IF ok
          THEN artifact' = File(<<>>) /\ Continue("write_body")
          ELSE artifact' = artifact /\ Abort("Uncaught")
    /\ UNCHANGED <<dumpFile, rc, stdout, engineTable, raw, rawIsDict, cleaned,
                   artifact0, dirExists>>

\* json.dump(cleaned, f, ...): on an error any part of the body may be on disk
WriteBody ==
    /\ pc = "write_body"
    /\ stage' = "WriteBody"
    /\ LET body == json_dump(cleaned)
       IN  \/ artifact' = File(body) /\ Continue("write_newline")
           \/ \E n \in 0..(Len(body) - 1) :
                 artifact' = File(SubSeq(body, 1, n)) /\ Abort("Uncaught")
    /\ UNCHANGED <<dumpFile, rc, stdout, engineTable, raw, rawIsDict, cleaned,
                   artifact0, dirExists>>

\* f.write("\n") and the close at the end of the with block
WriteNewline ==
    /\ pc = "write_newline"
    /\ stage' = "WriteNewline"
    /\ \E ok \in BOOLEAN :
          IF ok
          THEN artifact' = File(artifact.content \o <<Newline>>) /\ Continue("wrote")
          ELSE artifact' = artifact /\ Abort("Uncaught")
    /\ UNCHANGED <<dumpFile, rc, stdout, engineTable, raw, rawIsDict, cleaned,
                   artifact0, dirExists>>

\* print("Wrote: ..."); main returns and the interpreter exits with 0
Finish ==
    /\ pc = "wrote"
    /\ stage' = "Finish"
    /\ pc' = "exited"
    /\ exitCode' = 0
    /\ UNCHANGED <<err, dumpFile, rc, stdout, engineTable, raw, rawIsDict,
                   cleaned, artifact, artifact0, dirExists>>

Next ==
    \/ FindEmacs
    \/ FindAgdaMode
    \/ Locate
    \/ CheckDefinition
    \/ CreateTemp
    \/ WriteTemp
    \/ LaunchEngine
    \/ EngineEnds
    \/ CheckOutput
    \/ Postprocess
    \/ MakeDirs
    \/ OpenOutput
    \/ WriteBody
    \/ WriteNewline
    \/ Finish

Spec == Init /\ [][Next]_vars

(* ------------------------------ properties ----------------------------- *)

Exited == pc = "exited"

PreWriteStages ==
    {"FindEmacs", "FindAgdaMode", "Locate", "CheckDefinition", "CreateTemp",
     "WriteTemp", "LaunchEngine", "EngineEnds", "CheckOutput", "Postprocess"}

\* the steps that follow the reading of the engine's output
AfterOutputStages ==
    {"Postprocess", "MakeDirs", "OpenOutput", "WriteBody", "WriteNewline", "Finish"}

\* the captured output is nothing but white space
OutputBlank(out) == \A i \in 1..Len(out) : out[i].t = "ws"

\* the captured output is one JSON value with white space around it
OutputIsJson(out) ==
    \E i \in 1..Len(out) :
        /\ out[i].t \in {"json", "jsonarr"}
        /\ \A j \in 1..Len(out) : j # i => out[j].t = "ws"

JsonOf(out) == out[CHOOSE i \in 1..Len(out) : out[i].t \in {"json", "jsonarr"}]

\* C1: when the run has ended, the artifact file is either what it was
\* before the run or the complete serialization of this run's normalized
\* table; nothing truncated or empty is left behind.
C1_AllOrNothing ==
    Exited => (artifact = artifact0 \/ artifact = File(CompleteArtifact(cleaned)))

\* C2: up to and including normalization the artifact file is untouched; a
\* run that ends there ends with exit code 1; output that is blank or does
\* not parse never lets the run go on; and exit code 0 comes only after the
\* complete artifact has been written.
C2_FailBeforeWrite ==
    /\ stage \in PreWriteStages \cup {"none"} => artifact = artifact0
    /\ (Exited /\ stage \in PreWriteStages) => exitCode = 1
    /\ (stage = "CheckOutput" /\ ~OutputIsJson(stdout)) => (Exited /\ exitCode = 1)
    /\ stage \in AfterOutputStages => OutputIsJson(stdout)
    /\ (Exited /\ exitCode = 0) =>
          (stage = "Finish" /\ artifact = File(CompleteArtifact(cleaned)))

\* a run that timed out, with the earlier artifact still in place
C2_Witness ==
    /\ Exited /\ err = "EngineTimeout" /\ exitCode = 1
    /\ artifact0 = File(CompleteArtifact(OldTable)) /\ artifact = artifact0

\* C3: no dump-routine file exists once the run has ended, and the file
\* exists only between its creation and the end of the engine invocation.
C3_DumpFileRemoved ==
    /\ Exited => ~dumpFile
    /\ dumpFile => pc \in {"write_temp", "launch", "engine"}

\* C4: once the engine's output has been read, the outcome is a function of
\* the captured output alone: blank output is EngineProducedNoOutput,
\* other output that is not one JSON value is MalformedOutput, and one JSON
\* value is returned as the raw table, whatever the exit status was.
C4_OutputDecides ==
    stage \in AfterOutputStages \cup {"CheckOutput"} =>
        /\ OutputBlank(stdout) =>
              (Exited /\ stage = "CheckOutput" /\ err = "EngineProducedNoOutput")
        /\ (~OutputBlank(stdout) /\ ~OutputIsJson(stdout)) =>
              (Exited /\ stage = "CheckOutput" /\ err = "MalformedOutput")
        /\ OutputIsJson(stdout) =>
              /\ err \notin {"EngineProducedNoOutput", "MalformedOutput"}
              /\ stage = "CheckOutput" => pc = "postprocess"
              /\ raw = JsonOf(stdout).tbl

\* a non-empty raw table returned although the engine's exit status is 1
C4_Witness ==
    /\ stage = "CheckOutput" /\ pc = "postprocess"
    /\ rc = 1 /\ raw # <<>> /\ raw = JsonOf(stdout).tbl

Normalized == pc \in {"normalized", "serialized"}

\* C5: every value sequence of the normalized table is non-empty and holds
\* no empty string.
C5_ValuesNonEmpty ==
    Normalized =>
        \A i \in 1..Len(cleaned) :
            /\ cleaned[i].v # <<>>
            /\ \A j \in 1..Len(cleaned[i].v) : cleaned[i].v[j] # <<>>

\* a comes before b in lexicographic order: they agree on the first n
\* places, and then a ends or has the smaller code point
KeyBefore(a, b) ==
    \E n \in 0..Len(a) :
        /\ n <= Len(b)
        /\ \A i \in 1..n : a[i] = b[i]
        /\ \/ n = Len(a) /\ n < Len(b)
           \/ n < Len(a) /\ n < Len(b) /\ a[n + 1] < b[n + 1]

StrictlyAscending(keys) ==
    \A i, j \in 1..Len(keys) : i < j => KeyBefore(keys[i], keys[j])

KeySeq(d) == [i \in 1..Len(d) |-> d[i].k]

\* the reorderings of a dict's items
Reorderings(d) ==
    {[i \in 1..Len(d) |-> d[f[i]]] :
        f \in {g \in [1..Len(d) -> 1..Len(d)] :
                  \A i, j \in 1..Len(d) : i # j => g[i] # g[j]}}

\* no two raw keys strip to the same key
NoCollision(d) ==
    \A i, j \in 1..Len(d) : i # j => StripMarker(d[i].k) # StripMarker(d[j].k)

\* C6: the keys of the normalized table, and those of the artifact, are in
\* strictly ascending lexicographic order (hence unique), and every
\* reordering of a raw mapping without colliding keys normalizes to the
\* same table.
C6_SortedUniqueDeterministic ==
    /\ Normalized => StrictlyAscending(KeySeq(cleaned))
    /\ pc = "serialized" =>
          /\ StrictlyAscending(ArtifactKeys(artifact.content))
          /\ ArtifactKeys(artifact.content) = KeySeq(cleaned)
    /\ (pc = "normalized" /\ NoCollision(raw)) =>
          \A d \in Reorderings(raw) : postprocess(d) = cleaned

\* two raw items given in descending order of their stripped keys, written
\* to the artifact in ascending order
C6_Witness ==
    /\ pc = "serialized"
    /\ Len(raw) = 2 /\ Len(cleaned) = 2
    /\ KeyBefore(StripMarker(raw[2].k), StripMarker(raw[1].k))
    /\ Len(ArtifactKeys(artifact.content)) = 2

Blank(key) == \A i \in 1..Len(key) : key[i] \in WhitespaceChars

\* C7: no key of the normalized table is empty or all white space; the
\* table has at most one key for each raw pair whose stripped key is not
\* blank, and none when every stripped key is blank.
C7_NoBlankKeys ==
    Normalized =>
        /\ \A i \in 1..Len(cleaned) : ~Blank(cleaned[i].k)
        /\ (\A i \in 1..Len(raw) : Blank(StripMarker(raw[i].k))) => cleaned = <<>>
        /\ Len(cleaned) <= Cardinality({i \in 1..Len(raw) : ~Blank(StripMarker(raw[i].k))})

\* marker, space, space with value [NBSP] gives the empty table
C7_Witness ==
    /\ pc = "normalized"
    /\ raw = <<[k |-> <<92, 32, 32>>, v |-> << <<160>> >>]>>
    /\ cleaned = <<>>

TwoMarkers(key) == Len(key) >= 2 /\ key[1] = Marker /\ key[2] = Marker

\* C8 as stated: stripping a key of the normalized table leaves it unchanged.
C8_StripIdempotent ==
    Normalized => \A i \in 1..Len(cleaned) : StripMarker(cleaned[i].k) = cleaned[i].k

\* C8, amended: for a raw key that does not begin with two markers and is
\* retained, the stripped key is in the table and stripping it again leaves
\* it unchanged.
C8_StripIdempotentOneMarker ==
    Normalized =>
        \A i \in 1..Len(raw) :
            LET stripped == StripMarker(raw[i].k)
            IN  (~TwoMarkers(raw[i].k) /\ ~Blank(stripped)) =>
                    /\ HasKey(cleaned, stripped)
                    /\ StripMarker(stripped) = stripped

\* the retained key "ab", from marker + "ab"
C8_Witness ==
    /\ pc = "normalized"
    /\ \E i \in 1..Len(raw) : raw[i].k = <<92, 97, 98>>
    /\ HasKey(cleaned, <<97, 98>>)

\* C10 as stated: every raw pair whose stripped key is not blank has its
\* translation list under the stripped key.
C10_PairRetained ==
    Normalized =>
        \A i \in 1..Len(raw) :
            LET stripped == StripMarker(raw[i].k)
            IN  ~Blank(stripped) =>
                    /\ HasKey(cleaned, stripped)
                    /\ Lookup(cleaned, stripped) = raw[i].v

\* C10, amended: the stripped key is in the table, and it maps to the list
\* of the last raw pair that strips to it.
C10_LastPairRetained ==
    Normalized =>
        \A i \in 1..Len(raw) :
            LET stripped == StripMarker(raw[i].k)
            IN  ~Blank(stripped) =>
                    /\ HasKey(cleaned, stripped)
                    /\ (\A j \in 1..Len(raw) : j > i => StripMarker(raw[j].k) # stripped)
                          => Lookup(cleaned, stripped) = raw[i].v

\* marker + "a" with ["", "→"], then "a" with [NBSP]: the table has [NBSP]
C10_Witness ==
    /\ pc = "normalized"
    /\ raw = <<[k |-> <<92, 97>>, v |-> << <<>>, <<8594>> >>],
               [k |-> <<97>>, v |-> << <<160>> >>]>>
    /\ cleaned = <<[k |-> <<97>>, v |-> << <<160>> >>]>>

\* every candidate is one character in 0x20..0x7e
AllSinglePrintable(strings) ==
    \A j \in 1..Len(strings) :
        Len(strings[j]) = 1 /\ strings[j][1] \in 32..126

\* the candidates that are not one printable ASCII character, in order
OtherCandidates(strings) ==
    SelectSeq(strings, LAMBDA str : ~(Len(str) = 1 /\ str[1] \in 32..126))

Dumped == pc \in {"raw", "normalized"}

\* C9 as stated: an entry all of whose candidates are single printable
\* ASCII characters has its key neither in the raw mapping nor in the final
\* table, and every other entry is in the raw mapping.
C9_FilterExact ==
    Dumped =>
        \A i \in 1..Len(engineTable) :
            LET key == engineTable[i].k
                strings == ValueStrings(engineTable[i].val)
            IN  /\ AllSinglePrintable(strings) =>
                      /\ ~HasKey(raw, key)
                      /\ pc = "normalized" => ~HasKey(cleaned, key)
                /\ ~AllSinglePrintable(strings) => HasKey(raw, key)

\* C9, amended: such an entry's key is not in the raw mapping, and its
\* stripped key is in the final table only when a pair of the raw mapping
\* strips to it; an entry with a non-empty key and another candidate is in
\* the raw mapping with exactly its other candidates; an entry with the
\* empty key is not.
C9_FilterExactNonEmptyKey ==
    Dumped =>
        \A i \in 1..Len(engineTable) :
            LET key == engineTable[i].k
                strings == ValueStrings(engineTable[i].val)
            IN  /\ (AllSinglePrintable(strings) \/ key = <<>>) =>
                      /\ ~HasKey(raw, key)
                      /\ (pc = "normalized" /\ HasKey(cleaned, StripMarker(key))) =>
                            \E j \in 1..Len(raw) : StripMarker(raw[j].k) = StripMarker(key)
                /\ (~AllSinglePrintable(strings) /\ key # <<>>) =>
                      /\ HasKey(raw, key)
                      /\ Lookup(raw, key) = OtherCandidates(strings)

\* marker + "a" with the single candidate " " is dropped, "a" with the
\* candidates "a", "→", "ab" is kept as "→", "ab"
C9_Witness ==
    /\ pc = "normalized"
    /\ \E i \in 1..Len(engineTable) :
          /\ engineTable[i].k = <<92, 97>>
          /\ engineTable[i].val = Scalar(CharItem(32))
    /\ raw = <<[k |-> <<97>>, v |-> << <<8594>>, <<97, 98>> >>]>>
    /\ cleaned = raw

====
